---- MODULE Spec2Model ----
(***************************************************************************)
(* Model of config/database.py: the module body, which reads the          *)
(* environment, builds DATABASE_URI and creates the pooled engine, and    *)
(* the functions get_db, create_tables, drop_database, check_connection.  *)
(*                                                                         *)
(* Three specifications share the variables:                               *)
(*   SpecConfig  the module body (lines 22-66) run once in an arbitrary    *)
(*               environment;                                              *)
(*   Spec        request threads calling get_db and working in its scope,  *)
(*               all drawing on the engine's connection pool;              *)
(*   SpecAdmin   a maintenance thread calling create_tables, drop_database *)
(*               and check_connection on a database that comes and goes,   *)
(*               while request threads hold connections of the pool.       *)
(*                                                                         *)
(* The pool is SQLAlchemy's QueuePool as create_engine configures it on    *)
(* lines 53-63: pool_size connections are kept, max_overflow more may be   *)
(* opened, a checkout blocks for pool_timeout and then raises              *)
(* TimeoutError.                                                           *)
(***************************************************************************)
EXTENDS Integers, Sequences, FiniteSets, TLC

VARIABLES
    environ,        \* os.environ restricted to the six connection variables
    dotenv,         \* the variables defined in ../.env
    cpc,            \* position in the module body
    settings,       \* the module globals POSTGRES_HOST .. PGSSLMODE
    DATABASE_URI,   \* the module global DATABASE_URI
    connect_args,   \* the module global connect_args
    engines,        \* number of create_engine calls made so far
    pc,             \* per thread: position in the operation it runs
    sess,           \* per request thread: the Session get_db handed it
    err,            \* per thread: the exception in flight, "" if none
    waited,         \* per thread: time spent blocked on the pool
    result,         \* per thread: how its last operation ended
    op,             \* the function the maintenance thread is running
    conn,           \* the connection its engine.connect() holds, 0 if none
    log,            \* what the logger received from its running call
    stmts,          \* statements its running call sent to the database
    repeat,         \* its running call directly follows a create_tables
                    \* call that returned
    before,         \* the tables present when its running call began
    lastCreated,    \* its last finished call was a create_tables that returned
    lost,           \* per request thread: work its Session's close discarded
    created,        \* number of Sessions created so far
    sessions,       \* the open Sessions, by id
    idle,           \* the pool's queue of checked-in connections
    overflow,       \* QueuePool's overflow counter (starts at -pool_size)
    dbUp,           \* whether the database server is reachable
    tables,         \* the tables present in the database
    committed       \* units of work committed to the database

cfgvars == <<environ, dotenv, cpc, settings, DATABASE_URI, connect_args, engines>>
thrvars == <<pc, sess, err, waited, result, lost>>
admvars == <<op, conn, log, stmts, repeat, before, lastCreated>>
poolvars == <<created, sessions, idle, overflow>>
dbvars == <<dbUp, tables, committed>>
runvars == <<thrvars, admvars, poolvars, dbvars>>
vars == <<cfgvars, runvars>>

(***************************************************************************)
(* Environment and connection URI                                          *)
(***************************************************************************)

EnvNames == {"POSTGRES_HOST", "POSTGRES_PORT", "POSTGRES_DB",
             "POSTGRES_USER", "POSTGRES_PASSWORD", "PGSSLMODE"}

\* An environment entry is <<>> when the variable is unset and <<v>> when it
\* is set to the string v (which may be empty).
Unset == <<>>
IsSet(e) == e /= Unset

\* The values the environment is drawn from.
EnvValues ==
    [POSTGRES_HOST     |-> {"db"},
     POSTGRES_PORT     |-> {"6543"},
     POSTGRES_DB       |-> {"shop"},
     POSTGRES_USER     |-> {"app"},
     POSTGRES_PASSWORD |-> {"p@ss", ""},
     PGSSLMODE         |-> {"", "disable", "require", "verify-full"}]

\* The values the .env file is drawn from.
DotenvValues ==
    [POSTGRES_HOST     |-> {"filehost"},
     POSTGRES_PORT     |-> {},
     POSTGRES_DB       |-> {},
     POSTGRES_USER     |-> {},
     POSTGRES_PASSWORD |-> {"filepw"},
     PGSSLMODE         |-> {"disable", "allow"}]

Entries(values) ==
    {f \in [EnvNames -> {Unset} \cup {<<v>> : v \in UNION {values[n] : n \in EnvNames}}] :
        \A n \in EnvNames : IsSet(f[n]) => f[n][1] \in values[n]}

\* load_dotenv(env_path): a variable of the file is set in os.environ unless
\* the process environment already defines it (override defaults to False).
load_dotenv(env, file) ==
    [n \in EnvNames |-> IF IsSet(env[n]) THEN env[n] ELSE file[n]]

\* os.getenv(name, default)
getenv(env, name, default) ==
    IF IsSet(env[name]) THEN env[name][1] ELSE default

\* Lines 27-32.
ReadSettings(env) ==
    [POSTGRES_HOST     |-> getenv(env, "POSTGRES_HOST", "localhost"),
     POSTGRES_PORT     |-> getenv(env, "POSTGRES_PORT", "5432"),
     POSTGRES_DB       |-> getenv(env, "POSTGRES_DB", "postgres"),
     POSTGRES_USER     |-> getenv(env, "POSTGRES_USER", "postgres"),
     POSTGRES_PASSWORD |-> getenv(env, "POSTGRES_PASSWORD", "postgres"),
     PGSSLMODE         |-> getenv(env, "PGSSLMODE", "prefer")]

\* A mutant of BuildURI: user and password change places.
BuildURISwapped(s) ==
    "postgresql://" \o s.POSTGRES_PASSWORD \o ":" \o s.POSTGRES_USER \o "@"
        \o s.POSTGRES_HOST \o ":" \o s.POSTGRES_PORT \o "/" \o s.POSTGRES_DB

\* Line 41.
BuildURI(s) ==
    "postgresql://" \o s.POSTGRES_USER \o ":" \o s.POSTGRES_PASSWORD \o "@"
        \o s.POSTGRES_HOST \o ":" \o s.POSTGRES_PORT \o "/" \o s.POSTGRES_DB

\* A mutant of AddSSLMode: the comparison with 'disable' is lost.
AddSSLModeAlways(uri, mode) ==
    IF mode /= "" THEN uri \o "?sslmode=" \o mode ELSE uri

\* Lines 44-45: a Python string is truthy when it is not empty.
AddSSLMode(uri, mode) ==
    IF mode /= "" /\ mode /= "disable"
    THEN uri \o "?sslmode=" \o mode
    ELSE uri

\* Lines 48-50.
ConnectArgs(mode) ==
    IF mode = "require" THEN <<"sslmode", "require">> ELSE <<>>

NoSettings == [n \in EnvNames |-> ""]

(***************************************************************************)
(* Threads, the engine's connection pool and the database                  *)
(***************************************************************************)

MaxSessions == 3     \* get_db calls made in one run
MaxCommits == 1      \* commits made in one run
NumTables == 2       \* tables declared on base.metadata

\* Lines 35-37 with DB_POOL_SIZE=1, DB_MAX_OVERFLOW=1 and DB_POOL_TIMEOUT=1
\* in the environment, so that a few threads exhaust the pool.
POOL_SIZE == 1
MAX_OVERFLOW == 1
POOL_TIMEOUT == 1

\* The connections the pool hands out at most.
Capacity == POOL_SIZE + MAX_OVERFLOW

\* The maintenance thread, and the request threads: one more than the pool
\* has connections, so that they can exhaust it.
Admin == 0
Requests == 1..(Capacity + 1)
Threads == {Admin} \cup Requests
Known == 1..NumTables

NoResult == [op |-> "none", kind |-> "none", value |-> FALSE, error |-> ""]
Returned(o, v) == [op |-> o, kind |-> "returned", value |-> v, error |-> ""]
Raised(o, e) == [op |-> o, kind |-> "raised", value |-> FALSE, error |-> e]

\* The number of connections checked out of the pool: one for each Session
\* in a transaction, and the one the maintenance thread's engine.connect()
\* holds.  A connection is counted, not named: QueuePool decides by counts.
SessionConns == Cardinality({i \in DOMAIN sessions : sessions[i].conn = 1})
CheckedOut == SessionConns + conn

\* A faulty variant of CanTake: the overflow is not limited.
CanTakeUnbounded == TRUE

\* QueuePool hands out a connection when one is checked in or when the
\* overflow allows opening another (pool_size, max_overflow: lines 57-58).
CanTake == idle > 0 \/ overflow < MAX_OVERFLOW

\* The pool a checkout leaves: a checked-in connection is taken from the
\* queue, or a new one is opened and counted in the overflow.
Take ==
    IF idle > 0
    THEN [idle |-> idle - 1, overflow |-> overflow]
    ELSE [idle |-> idle, overflow |-> overflow + 1]

\* The pool after n (0 or 1) connections are checked in: queued, or closed
\* when the queue already holds pool_size connections.
Give(n) ==
    IF n = 0 THEN [idle |-> idle, overflow |-> overflow]
    ELSE IF idle < POOL_SIZE
         THEN [idle |-> idle + 1, overflow |-> overflow]
         ELSE [idle |-> idle, overflow |-> overflow - 1]

\* sessionmaker(autocommit=False, autoflush=False, bind=engine): line 66.
NewSession == [bind |-> engines, conn |-> 0, pending |-> 0]

Mine(t) == sessions[sess[t]]

(***************************************************************************)
(* Checking a connection out of the pool                                   *)
(***************************************************************************)

OnGot(t) == IF t = Admin THEN "execute" ELSE "scope"
OnFail(t) == IF t = Admin THEN "except" ELSE "finally"

Fail(t, e) ==
    /\ err' = [err EXCEPT ![t] = e]
    /\ pc' = [pc EXCEPT ![t] = OnFail(t)]

\* Thread t asks the pool for a connection (a Session at its first use, or
\* engine.connect()).  With the pool exhausted it blocks; otherwise the
\* connection is pinged or opened (pool_pre_ping), which fails when the
\* server is unreachable and leaves the pool as it was.
Checkout(t) ==
    IF ~CanTake
    THEN /\ pc' = [pc EXCEPT ![t] = "waiting"]
         /\ waited' = [waited EXCEPT ![t] = 0]
         /\ UNCHANGED <<err, conn, poolvars>>
    ELSE IF ~dbUp
    THEN /\ Fail(t, "OperationalError")
         /\ UNCHANGED <<waited, conn, poolvars>>
    ELSE /\ pc' = [pc EXCEPT ![t] = OnGot(t)]
         /\ idle' = Take.idle
         /\ overflow' = Take.overflow
         /\ IF t = Admin
            THEN conn' = 1 /\ sessions' = sessions
            ELSE conn' = conn
                 /\ sessions' = [sessions EXCEPT ![sess[t]].conn = 1]
         /\ UNCHANGED <<err, waited, created>>

\* A blocked thread is handed a connection that became available.
WaitGet(t) ==
    /\ pc[t] = "waiting"
    /\ CanTake
    /\ Checkout(t)
    /\ UNCHANGED <<cfgvars, sess, result, lost, op, log, stmts, repeat,
                   before, lastCreated, dbvars>>

\* pool_timeout (line 59) has passed: QueuePool raises TimeoutError.
Timeout(t) ==
    /\ pc[t] = "waiting"
    /\ waited[t] = POOL_TIMEOUT
    /\ Fail(t, "TimeoutError")
    /\ UNCHANGED <<cfgvars, sess, waited, result, lost, admvars, poolvars, dbvars>>

\* Time passes for the blocked threads; none stays blocked past its timeout.
Tick ==
    /\ \E t \in Threads : pc[t] = "waiting"
    /\ \A t \in Threads : pc[t] = "waiting" => waited[t] < POOL_TIMEOUT
    /\ waited' = [t \in Threads |->
                    IF pc[t] = "waiting" THEN waited[t] + 1 ELSE waited[t]]
    /\ UNCHANGED <<cfgvars, pc, sess, err, result, lost, admvars, poolvars, dbvars>>

(***************************************************************************)
(* get_db and the scope of its caller                                      *)
(***************************************************************************)

\* A faulty variant of GetDb: one Session is handed to every caller.
GetDbShared(t) ==
    /\ t \in Requests
    /\ pc[t] = "idle"
    /\ created < MaxSessions
    /\ IF DOMAIN sessions /= {}
       THEN /\ sess' = [sess EXCEPT ![t] = CHOOSE i \in DOMAIN sessions : TRUE]
            /\ UNCHANGED <<created, sessions>>
       ELSE /\ created' = created + 1
            /\ sessions' = sessions @@ (created + 1 :> NewSession)
            /\ sess' = [sess EXCEPT ![t] = created + 1]
    /\ pc' = [pc EXCEPT ![t] = "scope"]
    /\ lost' = [lost EXCEPT ![t] = 0]
    /\ result' = [result EXCEPT ![t] = NoResult]
    /\ UNCHANGED <<cfgvars, err, waited, admvars, idle, overflow, dbvars>>

\* A faulty variant of GetDb: every call builds an engine of its own.
GetDbNewEngine(t) ==
    /\ t \in Requests
    /\ pc[t] = "idle"
    /\ created < MaxSessions
    /\ engines' = engines + 1
    /\ created' = created + 1
    /\ sessions' = sessions @@ (created + 1 :> [NewSession EXCEPT !.bind = engines + 1])
    /\ sess' = [sess EXCEPT ![t] = created + 1]
    /\ pc' = [pc EXCEPT ![t] = "scope"]
    /\ lost' = [lost EXCEPT ![t] = 0]
    /\ result' = [result EXCEPT ![t] = NoResult]
    /\ UNCHANGED <<environ, dotenv, cpc, settings, DATABASE_URI, connect_args,
                   err, waited, admvars, idle, overflow, dbvars>>

\* Lines 74-76: db = SessionLocal(); yield db.
GetDb(t) ==
    /\ t \in Requests
    /\ pc[t] = "idle"
    /\ created < MaxSessions
    /\ created' = created + 1
    /\ sessions' = sessions @@ (created + 1 :> NewSession)
    /\ sess' = [sess EXCEPT ![t] = created + 1]
    /\ pc' = [pc EXCEPT ![t] = "scope"]
    /\ lost' = [lost EXCEPT ![t] = 0]
    /\ result' = [result EXCEPT ![t] = NoResult]
    /\ UNCHANGED <<cfgvars, err, waited, admvars, idle, overflow, dbvars>>

\* The caller uses the Session for the first time: the Session checks a
\* connection out of the engine's pool and begins a transaction.
Begin(t) ==
    /\ t \in Requests
    /\ pc[t] = "scope"
    /\ Mine(t).conn = 0
    /\ Checkout(t)
    /\ UNCHANGED <<cfgvars, sess, result, lost, op, log, stmts, repeat,
                   before, lastCreated, dbvars>>

\* The caller changes data inside the transaction (autocommit=False).
Execute(t) ==
    /\ t \in Requests
    /\ pc[t] = "scope"
    /\ Mine(t).conn /= 0
    /\ IF dbUp
       THEN /\ sessions' = [sessions EXCEPT ![sess[t]].pending = 1]
            /\ UNCHANGED <<pc, err>>
       ELSE /\ Fail(t, "OperationalError")
            /\ UNCHANGED sessions
    /\ UNCHANGED <<cfgvars, sess, waited, result, lost, admvars, created, idle,
                   overflow, dbvars>>

\* The caller commits: the work is stored and the Session gives its
\* connection back until its next use.
Commit(t) ==
    /\ t \in Requests
    /\ pc[t] = "scope"
    /\ Mine(t).conn /= 0
    /\ Mine(t).pending = 1
    /\ committed < MaxCommits
    /\ IF dbUp
       THEN /\ committed' = committed + 1
            /\ idle' = Give(Mine(t).conn).idle
            /\ overflow' = Give(Mine(t).conn).overflow
            /\ sessions' = [sessions EXCEPT ![sess[t]].pending = 0,
                                            ![sess[t]].conn = 0]
            /\ UNCHANGED <<pc, err>>
       ELSE /\ Fail(t, "OperationalError")
            /\ UNCHANGED <<committed, sessions, idle, overflow>>
    /\ UNCHANGED <<cfgvars, sess, waited, result, lost, admvars, created, dbUp,
                   tables>>

\* The caller's scope completes: the generator is resumed after the yield.
ScopeReturn(t) ==
    /\ t \in Requests
    /\ pc[t] = "scope"
    /\ pc' = [pc EXCEPT ![t] = "finally"]
    /\ UNCHANGED <<cfgvars, sess, err, waited, result, lost, admvars, poolvars,
                   dbvars>>

\* The caller's scope raises: the exception is thrown into the generator
\* at the yield.
ScopeRaise(t) ==
    /\ t \in Requests
    /\ pc[t] = "scope"
    /\ Fail(t, "ValueError")
    /\ UNCHANGED <<cfgvars, sess, waited, result, lost, admvars, poolvars, dbvars>>

\* Session.close() on the Session with id i: the open transaction is rolled
\* back, the connection goes back to the pool and the Session is gone.
CloseSession(i) ==
    /\ sessions' = [j \in DOMAIN sessions \ {i} |-> sessions[j]]
    /\ idle' = Give(sessions[i].conn).idle
    /\ overflow' = Give(sessions[i].conn).overflow
    /\ created' = created

\* How the generator ends once its finally block has run: it returns, or
\* the exception that was thrown into it goes on to the caller.
Outcome(t) ==
    IF err[t] = "" THEN Returned("get_db", FALSE) ELSE Raised("get_db", err[t])

Leave(t) ==
    /\ pc' = [pc EXCEPT ![t] = "idle"]
    /\ sess' = [sess EXCEPT ![t] = 0]
    /\ err' = [err EXCEPT ![t] = ""]
    /\ waited' = [waited EXCEPT ![t] = 0]

\* A faulty variant of Finally: db.close() follows the yield without
\* try/finally, so an exception skips it.
FinallyUnlessError(t) ==
    /\ t \in Requests
    /\ pc[t] = "finally"
    /\ IF err[t] = ""
       THEN CloseSession(sess[t]) /\ lost' = [lost EXCEPT ![t] = Mine(t).pending]
       ELSE UNCHANGED <<poolvars, lost>>
    /\ result' = [result EXCEPT ![t] = Outcome(t)]
    /\ Leave(t)
    /\ UNCHANGED <<cfgvars, admvars, dbvars>>

\* A faulty variant of Finally: the Session commits before it is closed.
FinallyCommitting(t) ==
    /\ t \in Requests
    /\ pc[t] = "finally"
    /\ CloseSession(sess[t])
    /\ lost' = [lost EXCEPT ![t] = Mine(t).pending]
    /\ committed' = committed + Mine(t).pending
    /\ result' = [result EXCEPT ![t] = Outcome(t)]
    /\ Leave(t)
    /\ UNCHANGED <<cfgvars, admvars, dbUp, tables>>

\* Lines 77-78, finally: db.close().  The Session is closed, then the
\* generator ends the way its caller's scope ended.
Finally(t) ==
    /\ t \in Requests
    /\ pc[t] = "finally"
    /\ CloseSession(sess[t])
    /\ lost' = [lost EXCEPT ![t] = Mine(t).pending]
    /\ result' = [result EXCEPT ![t] = Outcome(t)]
    /\ Leave(t)
    /\ UNCHANGED <<cfgvars, admvars, dbvars>>

(***************************************************************************)
(* create_tables, drop_database and check_connection                       *)
(***************************************************************************)

\* A faulty variant of CreateAll: CREATE TABLE is issued for every declared
\* table without looking for it first.
CreateAllUnchecked(ts) ==
    IF ts \cap Known /= {}
    THEN [error |-> "ProgrammingError", tables |-> ts]
    ELSE [error |-> "", tables |-> ts \cup Known]

\* base.metadata.create_all(engine), line 84: each declared table is created
\* unless it exists.
CreateAll(ts) == [error |-> "", tables |-> ts \cup Known]

\* base.metadata.drop_all(engine), line 94: each declared table is dropped
\* if it exists.
DropAll(ts) == [error |-> "", tables |-> ts \ Known]

\* connection.execute(text("SELECT 1")), line 105.
SelectOne(ts) == [error |-> "", tables |-> ts]

Statement(o, ts) ==
    CASE o = "create_tables" -> CreateAll(ts)
      [] o = "drop_database" -> DropAll(ts)
      [] o = "check_connection" -> SelectOne(ts)

SuccessMessage(o) ==
    CASE o = "create_tables" -> "Tables created successfully."
      [] o = "drop_database" -> "Tables dropped successfully."
      [] o = "check_connection" -> "Database connection established."

ErrorMessage(o) ==
    CASE o = "create_tables" -> "Error creating tables"
      [] o = "drop_database" -> "Error dropping tables"
      [] o = "check_connection" -> "Error connecting to database"

\* The maintenance thread calls function o.
Call(o) ==
    /\ pc[Admin] = "idle"
    /\ op' = o
    /\ pc' = [pc EXCEPT ![Admin] = "connect"]
    /\ err' = [err EXCEPT ![Admin] = ""]
    /\ waited' = [waited EXCEPT ![Admin] = 0]
    /\ log' = <<>>
    /\ stmts' = 0
    /\ repeat' = lastCreated
    /\ before' = tables
    /\ result' = [result EXCEPT ![Admin] = NoResult]
    /\ UNCHANGED <<cfgvars, sess, lost, conn, lastCreated, poolvars, dbvars>>

\* The try block takes a connection from the engine: engine.connect() on
\* line 104, and the connection create_all and drop_all run on.
Connect(o) ==
    /\ pc[Admin] = "connect"
    /\ op = o
    /\ Checkout(Admin)
    /\ UNCHANGED <<cfgvars, sess, result, lost, op, log, stmts, repeat,
                   before, lastCreated, dbvars>>

\* The statements of the try block run and the connection goes back to the
\* pool, whether they succeeded or not.
Run(o) ==
    /\ pc[Admin] = "execute"
    /\ op = o
    /\ stmts' = stmts + 1
    /\ idle' = Give(conn).idle
    /\ overflow' = Give(conn).overflow
    /\ conn' = 0
    /\ IF ~dbUp
       THEN /\ Fail(Admin, "OperationalError")
            /\ UNCHANGED tables
       ELSE IF Statement(o, tables).error /= ""
       THEN /\ Fail(Admin, Statement(o, tables).error)
            /\ UNCHANGED tables
       ELSE /\ tables' = Statement(o, tables).tables
            /\ pc' = [pc EXCEPT ![Admin] = "ok"]
            /\ UNCHANGED err
    /\ UNCHANGED <<cfgvars, sess, waited, result, lost, op, log, repeat, before,
                   lastCreated, created, sessions, dbUp, committed>>

\* The try block ends: logger.info(...) and the function returns
\* (lines 85, 95, 106-107).
Succeed(o) ==
    /\ pc[Admin] = "ok"
    /\ op = o
    /\ log' = Append(log, <<"info", SuccessMessage(o), "">>)
    /\ result' = [result EXCEPT ![Admin] = Returned(o, o = "check_connection")]
    /\ lastCreated' = (o = "create_tables")
    /\ pc' = [pc EXCEPT ![Admin] = "idle"]
    /\ waited' = [waited EXCEPT ![Admin] = 0]
    /\ UNCHANGED <<cfgvars, sess, err, lost, op, conn, stmts, repeat, before,
                   poolvars, dbvars>>

\* except Exception as e: logger.error(...) (lines 86-87, 96-97, 108-109).
LogError(o) ==
    /\ pc[Admin] = "except"
    /\ op = o
    /\ log' = Append(log, <<"error", ErrorMessage(o), err[Admin]>>)
    /\ pc' = [pc EXCEPT ![Admin] = "handled"]
    /\ UNCHANGED <<cfgvars, sess, err, waited, result, lost, op, conn, stmts,
                   repeat, before, lastCreated, poolvars, dbvars>>

\* A faulty variant of Reraise: the handler ends without raise.
Swallow(o) ==
    /\ pc[Admin] = "handled"
    /\ op = o
    /\ o \in {"create_tables", "drop_database"}
    /\ result' = [result EXCEPT ![Admin] = Returned(o, FALSE)]
    /\ lastCreated' = FALSE
    /\ pc' = [pc EXCEPT ![Admin] = "idle"]
    /\ waited' = [waited EXCEPT ![Admin] = 0]
    /\ UNCHANGED <<cfgvars, sess, err, lost, op, conn, log, stmts, repeat, before,
                   poolvars, dbvars>>

\* raise (lines 88, 98): the handler of create_tables and of drop_database
\* re-raises the exception it caught.
Reraise(o) ==
    /\ pc[Admin] = "handled"
    /\ op = o
    /\ o \in {"create_tables", "drop_database"}
    /\ result' = [result EXCEPT ![Admin] = Raised(o, err[Admin])]
    /\ lastCreated' = FALSE
    /\ pc' = [pc EXCEPT ![Admin] = "idle"]
    /\ waited' = [waited EXCEPT ![Admin] = 0]
    /\ UNCHANGED <<cfgvars, sess, err, lost, op, conn, log, stmts, repeat, before,
                   poolvars, dbvars>>

\* A faulty variant of ReturnFalse: the handler of check_connection
\* re-raises like the other two.
ReturnFalseRaising ==
    /\ pc[Admin] = "handled"
    /\ op = "check_connection"
    /\ result' = [result EXCEPT ![Admin] = Raised(op, err[Admin])]
    /\ lastCreated' = FALSE
    /\ pc' = [pc EXCEPT ![Admin] = "idle"]
    /\ waited' = [waited EXCEPT ![Admin] = 0]
    /\ UNCHANGED <<cfgvars, sess, err, lost, op, conn, log, stmts, repeat, before,
                   poolvars, dbvars>>

\* return False (line 110).
ReturnFalse ==
    /\ pc[Admin] = "handled"
    /\ op = "check_connection"
    /\ result' = [result EXCEPT ![Admin] = Returned(op, FALSE)]
    /\ lastCreated' = FALSE
    /\ pc' = [pc EXCEPT ![Admin] = "idle"]
    /\ waited' = [waited EXCEPT ![Admin] = 0]
    /\ UNCHANGED <<cfgvars, sess, err, lost, op, conn, log, stmts, repeat, before,
                   poolvars, dbvars>>

create_tables ==
    \/ Call("create_tables") \/ Connect("create_tables") \/ Run("create_tables")
    \/ Succeed("create_tables") \/ LogError("create_tables")
    \/ Reraise("create_tables")

drop_database ==
    \/ Call("drop_database") \/ Connect("drop_database") \/ Run("drop_database")
    \/ Succeed("drop_database") \/ LogError("drop_database")
    \/ Reraise("drop_database")

check_connection ==
    \/ Call("check_connection") \/ Connect("check_connection")
    \/ Run("check_connection") \/ Succeed("check_connection")
    \/ LogError("check_connection") \/ ReturnFalse

\* The database server becomes unreachable, or reachable again.
ServerDown ==
    /\ dbUp
    /\ dbUp' = FALSE
    /\ UNCHANGED <<cfgvars, thrvars, admvars, poolvars, tables, committed>>

ServerUp ==
    /\ ~dbUp
    /\ dbUp' = TRUE
    /\ UNCHANGED <<cfgvars, thrvars, admvars, poolvars, tables, committed>>

(***************************************************************************)
(* The module body                                                         *)
(***************************************************************************)

\* Line 24.
LoadDotenv ==
    /\ cpc = "load_dotenv"
    /\ environ' = load_dotenv(environ, dotenv)
    /\ cpc' = "getenv"
    /\ UNCHANGED <<dotenv, settings, DATABASE_URI, connect_args, engines, runvars>>

\* Lines 27-32.
ReadEnvironment ==
    /\ cpc = "getenv"
    /\ settings' = ReadSettings(environ)
    /\ cpc' = "uri"
    /\ UNCHANGED <<environ, dotenv, DATABASE_URI, connect_args, engines, runvars>>

\* Line 41.
BuildDatabaseURI ==
    /\ cpc = "uri"
    /\ DATABASE_URI' = BuildURI(settings)
    /\ cpc' = "sslmode"
    /\ UNCHANGED <<environ, dotenv, settings, connect_args, engines, runvars>>

\* Lines 44-45.
AppendSSLMode ==
    /\ cpc = "sslmode"
    /\ DATABASE_URI' = AddSSLMode(DATABASE_URI, settings.PGSSLMODE)
    /\ cpc' = "connect_args"
    /\ UNCHANGED <<environ, dotenv, settings, connect_args, engines, runvars>>

\* Lines 48-50.
SetConnectArgs ==
    /\ cpc = "connect_args"
    /\ connect_args' = ConnectArgs(settings.PGSSLMODE)
    /\ cpc' = "create_engine"
    /\ UNCHANGED <<environ, dotenv, settings, DATABASE_URI, engines, runvars>>

\* Lines 53-66: the engine and the session factory bound to it.
CreateEngine ==
    /\ cpc = "create_engine"
    /\ engines' = engines + 1
    /\ cpc' = "imported"
    /\ UNCHANGED <<environ, dotenv, settings, DATABASE_URI, connect_args, runvars>>

(***************************************************************************)
(* Specifications                                                          *)
(***************************************************************************)

NoEnvironment == [n \in EnvNames |-> Unset]

RunInit ==
    /\ pc = [t \in Threads |-> "idle"]
    /\ sess = [t \in Requests |-> 0]
    /\ err = [t \in Threads |-> ""]
    /\ waited = [t \in Threads |-> 0]
    /\ result = [t \in Threads |-> NoResult]
    /\ op = "none"
    /\ conn = 0
    /\ log = <<>>
    /\ stmts = 0
    /\ repeat = FALSE
    /\ before = {}
    /\ lastCreated = FALSE
    /\ lost = [t \in Requests |-> 0]
    /\ created = 0
    /\ sessions = <<>>
    /\ idle = 0
    /\ overflow = 0 - POOL_SIZE
    /\ dbUp = TRUE
    /\ committed = 0

\* The module is about to be imported, in an arbitrary environment.
InitConfig ==
    /\ environ \in Entries(EnvValues)
    /\ dotenv \in Entries(DotenvValues)
    /\ cpc = "load_dotenv"
    /\ settings = NoSettings
    /\ DATABASE_URI = ""
    /\ connect_args = <<>>
    /\ engines = 0
    /\ RunInit
    /\ tables = {}

NextConfig ==
    \/ LoadDotenv
    \/ ReadEnvironment
    \/ BuildDatabaseURI
    \/ AppendSSLMode
    \/ SetConnectArgs
    \/ CreateEngine

SpecConfig == InitConfig /\ [][NextConfig]_vars

\* The module has been imported with none of the variables set.
Imported ==
    /\ environ = NoEnvironment
    /\ dotenv = NoEnvironment
    /\ cpc = "imported"
    /\ settings = ReadSettings(environ)
    /\ DATABASE_URI = AddSSLMode(BuildURI(settings), settings.PGSSLMODE)
    /\ connect_args = ConnectArgs(settings.PGSSLMODE)
    /\ engines = 1
    /\ RunInit

\* The request threads at work on a reachable database whose tables exist.
Init == Imported /\ tables = Known

Next ==
    \/ \E t \in Requests :
          \/ GetDb(t) \/ Begin(t) \/ Execute(t) \/ Commit(t)
          \/ ScopeReturn(t) \/ ScopeRaise(t) \/ Finally(t)
          \/ WaitGet(t) \/ Timeout(t)
    \/ Tick

Spec == Init /\ [][Next]_vars

\* The maintenance thread at work on a database that comes and goes and
\* holds any of the declared tables at the start, next to as many request
\* threads as it takes to hold every connection of the pool.
Holders == 1..Capacity

InitAdmin == Imported /\ tables \in SUBSET Known

NextAdmin ==
    \/ create_tables
    \/ drop_database
    \/ check_connection
    \/ ServerDown
    \/ ServerUp
    \/ \E t \in Holders :
          GetDb(t) \/ Begin(t) \/ ScopeReturn(t) \/ Finally(t)
    \/ \E t \in Holders \cup {Admin} : WaitGet(t) \/ Timeout(t)
    \/ Tick

SpecAdmin == InitAdmin /\ [][NextAdmin]_vars

TypeOK ==
    /\ pc \in [Threads -> {"idle", "scope", "waiting", "finally",
                           "connect", "execute", "ok", "except", "handled"}]
    /\ overflow \in (0 - POOL_SIZE)..MAX_OVERFLOW
    /\ idle \in 0..POOL_SIZE
    /\ idle + CheckedOut = POOL_SIZE + overflow

(***************************************************************************)
(* Properties                                                              *)
(***************************************************************************)

\* The connections the pool can still hand out.
Available == Capacity - CheckedOut

ScopesEnded == \A t \in Requests : pc[t] = "idle"

\* C1: however the scope of a get_db caller ends, its Session is closed and
\* its connection is back in the pool: an open Session always belongs to a
\* caller whose scope has not ended, and once every scope has ended the
\* pool can hand out as many connections as before the first get_db call.
C1_SessionClosedOnEveryExit ==
    /\ \A i \in DOMAIN sessions :
          \E t \in Requests : pc[t] /= "idle" /\ sess[t] = i
    /\ ScopesEnded => Available = Capacity

\* A run in which one scope ended with an error and another normally, both
\* after using a connection that is now checked in again.
C1_Witness ==
    /\ ScopesEnded
    /\ \E t \in Requests : result[t].kind = "raised" /\ lost[t] = 1
    /\ \E t \in Requests : result[t].kind = "returned" /\ lost[t] = 1
    /\ idle > 0

\* C5: the connections checked out never exceed pool_size + max_overflow;
\* a thread blocked on the pool holds no connection, is blocked for at most
\* pool_timeout, and the pool-exhaustion error reaches it only after it
\* waited that long with nothing handed to it.
C5_PoolBounded ==
    /\ CheckedOut <= Capacity
    /\ \A t \in Requests :
          /\ waited[t] <= POOL_TIMEOUT
          /\ pc[t] = "waiting" => sessions[sess[t]].conn = 0
          /\ err[t] = "TimeoutError" =>
                waited[t] = POOL_TIMEOUT /\ sessions[sess[t]].conn = 0

\* A caller got the pool-exhaustion error while every connection was out.
C5_Witness ==
    \E t \in Requests : err[t] = "TimeoutError" /\ CheckedOut = Capacity

\* C8: there is one engine, the one the module body created, and every
\* Session handed out by get_db is bound to it.
C8_OneEngine ==
    /\ engines = 1
    /\ cpc = "imported"
    /\ \A i \in DOMAIN sessions : sessions[i].bind = 1

\* Several Sessions are open at once and more have been closed.
C8_Witness ==
    /\ Cardinality(DOMAIN sessions) >= 2
    /\ created > Cardinality(DOMAIN sessions)

\* C9: every get_db call creates a Session that did not exist before, no
\* two callers hold the same Session, and closing a caller's Session leaves
\* every other Session, its connection and its transaction as they were.
C9_SessionsNotShared ==
    /\ [](\A t, u \in Requests :
            t /= u /\ pc[t] /= "idle" /\ pc[u] /= "idle" => sess[t] /= sess[u])
    /\ [][\A t \in Requests :
            /\ pc[t] = "idle" /\ pc'[t] = "scope" =>
                  /\ sess'[t] \notin 1..created
                  /\ sess'[t] \in DOMAIN sessions'
            /\ pc[t] = "finally" /\ pc'[t] = "idle" =>
                  \A i \in DOMAIN sessions \ {sess[t]} :
                      i \in DOMAIN sessions' /\ sessions'[i] = sessions[i]]_vars

\* Two callers each hold a connection in their own Session after a third
\* caller's Session, which had used one too, was closed.
C9_Witness ==
    \E t, u, v \in Requests :
        /\ t /= u
        /\ pc[t] = "scope" /\ sessions[sess[t]].conn = 1
        /\ pc[u] = "scope" /\ sessions[sess[u]].conn = 1
        /\ pc[v] = "idle" /\ result[v].kind = "returned" /\ lost[v] = 1

\* C10: when the finally block of get_db has run, the Session is closed,
\* nothing has been committed by it, and the generator ends the way the
\* scope ended: an error raised in the scope reaches the caller as the same
\* error, after the close.
C10_CloseThenPropagate ==
    [][\A t \in Requests :
        pc[t] = "finally" /\ pc'[t] = "idle" =>
            /\ sess[t] \notin DOMAIN sessions'
            /\ committed' = committed
            /\ IF err[t] = ""
               THEN result'[t].kind = "returned"
               ELSE result'[t].kind = "raised" /\ result'[t].error = err[t]]_vars

\* A scope that raised with uncommitted work: the error came out and the
\* work was not stored.
C10_Witness ==
    \E t \in Requests :
        /\ pc[t] = "idle"
        /\ result[t] = Raised("get_db", "ValueError")
        /\ lost[t] = 1
        /\ committed = 0

Finished(o) == pc[Admin] = "idle" /\ result[Admin].op = o

\* C2: check_connection never raises.  It returns True when connecting and
\* the query both succeeded, having logged the success; when either failed
\* it returns False, having logged the error with its cause.
C2_CheckConnectionNeverRaises ==
    /\ result[Admin].op = "check_connection" => result[Admin].kind = "returned"
    /\ Finished("check_connection") =>
          IF err[Admin] = ""
          THEN /\ result[Admin].value = TRUE
               /\ stmts = 1
               /\ log = << <<"info", "Database connection established.", "">> >>
          ELSE /\ result[Admin].value = FALSE
               /\ log = << <<"error", "Error connecting to database", err[Admin]>> >>
    /\ op = "check_connection" /\ pc[Admin] = "ok" => err[Admin] = ""
    /\ op = "check_connection" /\ pc[Admin] \in {"except", "handled"} =>
          err[Admin] /= ""

\* check_connection returned False for an unreachable database.
C2_Witness ==
    /\ Finished("check_connection")
    /\ result[Admin].value = FALSE
    /\ err[Admin] = "OperationalError"
    /\ ~dbUp

\* C6: a create_tables call made directly after a create_tables call that
\* returned does not fail on the tables the first call left and leaves the
\* same tables; the only errors it can raise are those of a database that
\* is unreachable or of a pool that is exhausted.
C6_CreateTablesIdempotent ==
    Finished("create_tables") /\ repeat =>
        IF err[Admin] \in {"OperationalError", "TimeoutError"}
        THEN result[Admin].kind = "raised" /\ tables = before
        ELSE result[Admin].kind = "returned" /\ tables = before

\* The second of two create_tables calls in a row has returned.
C6_Witness ==
    /\ Finished("create_tables")
    /\ repeat
    /\ result[Admin].kind = "returned"
    /\ tables = Known

\* C7: create_tables and drop_database run their statement once.  When it
\* fails the error is logged with its cause, nothing else is logged, and
\* the call ends by raising that error; when it does not fail the success
\* message is logged and the call returns.
C7_SchemaFailuresReraised ==
    /\ stmts <= 1
    /\ \A o \in {"create_tables", "drop_database"} :
          /\ op = o /\ pc[Admin] = "handled" =>
                log = << <<"error", ErrorMessage(o), err[Admin]>> >>
          /\ Finished(o) =>
                IF err[Admin] = ""
                THEN /\ result[Admin].kind = "returned"
                     /\ log = << <<"info", SuccessMessage(o), "">> >>
                ELSE /\ result[Admin] = Raised(o, err[Admin])
                     /\ log = << <<"error", ErrorMessage(o), err[Admin]>> >>

\* drop_database failed while running its statement, and raised.
C7_Witness ==
    /\ Finished("drop_database")
    /\ result[Admin] = Raised("drop_database", "OperationalError")
    /\ stmts = 1

(***************************************************************************)
(* Properties of the connection URI                                        *)
(***************************************************************************)

\* The value a variable has according to the interface description: its
\* value in the environment, or the documented default.
Documented ==
    [POSTGRES_HOST     |-> "localhost",
     POSTGRES_PORT     |-> "5432",
     POSTGRES_DB       |-> "postgres",
     POSTGRES_USER     |-> "postgres",
     POSTGRES_PASSWORD |-> "postgres",
     PGSSLMODE         |-> "prefer"]

Effective(n) == IF IsSet(environ[n]) THEN environ[n][1] ELSE Documented[n]

BareURI ==
    "postgresql://" \o Effective("POSTGRES_USER") \o ":"
        \o Effective("POSTGRES_PASSWORD") \o "@" \o Effective("POSTGRES_HOST")
        \o ":" \o Effective("POSTGRES_PORT") \o "/" \o Effective("POSTGRES_DB")

EndsWith(s, suffix) ==
    /\ Len(s) >= Len(suffix)
    /\ SubSeq(s, Len(s) - Len(suffix) + 1, Len(s)) = suffix

Contains(s, part) ==
    \E i \in 1..(Len(s) - Len(part) + 1) : SubSeq(s, i, i + Len(part) - 1) = part

SSLSuffix == "?sslmode=" \o Effective("PGSSLMODE")

\* C3 as stated: without sslmode for "disable", and ending with
\* ?sslmode=<value> for every other value, the empty string included.
C3_AsStated ==
    cpc = "imported" =>
        IF Effective("PGSSLMODE") = "disable"
        THEN ~Contains(DATABASE_URI, "sslmode")
        ELSE EndsWith(DATABASE_URI, SSLSuffix)

\* C3 amended: for "disable" and for the empty string nothing is appended
\* to the URI, which carries no sslmode parameter; for every other value
\* the URI ends with ?sslmode=<value>.
C3_SSLModeAppended ==
    cpc = "imported" =>
        IF Effective("PGSSLMODE") \in {"disable", ""}
        THEN DATABASE_URI = BareURI /\ ~Contains(DATABASE_URI, "sslmode")
        ELSE EndsWith(DATABASE_URI, SSLSuffix)

\* The module was imported with PGSSLMODE set to the empty string.
C3_Witness ==
    /\ cpc = "imported"
    /\ environ["PGSSLMODE"] = <<"">>
    /\ DATABASE_URI = BareURI

\* C4: the URI is postgresql://<user>:<password>@<host>:<port>/<db>, alone
\* or followed by ?sslmode=<mode>, each part being the variable's value
\* when it is set and its documented default when it is not.
C4_URIFormat ==
    cpc = "imported" =>
        DATABASE_URI \in {BareURI, BareURI \o SSLSuffix}

\* Some variables set, one of them to the empty string, and others unset.
C4_Witness ==
    /\ cpc = "imported"
    /\ environ["POSTGRES_PASSWORD"] = <<"">>
    /\ IsSet(environ["POSTGRES_USER"])
    /\ ~IsSet(environ["POSTGRES_PORT"])
    /\ ~IsSet(environ["PGSSLMODE"])
    /\ DATABASE_URI = "postgresql://app:@localhost:5432/postgres?sslmode=prefer"
====
